---- MODULE Spec2Model ----
(***************************************************************************)
(* CRC-16 (package crc16): table construction from a 16-bit polynomial,    *)
(* the table-driven Update, the one-shot Checksum helpers and the digest   *)
(* object (New / Reset / Write / Sum16 / Sum) over shared tables.          *)
(***************************************************************************)
EXTENDS Naturals, Sequences, FiniteSets, TLC

VARIABLES
    tables,     \* the heap of built *Table values: pointer -> [0..255 -> uint16]
    polys,      \* ghost: the polynomial each heap table was built from
    digests,    \* the live digest objects: each [crc, tab], tab a pointer into tables
    written,    \* ghost: per digest, the bytes written since New or the last Reset
    ret         \* the last call: its operation, its arguments and what it returned

vars == <<tables, polys, digests, written, ret>>

----------------------------------------------------------------------------
(* Bounds of the model. *)

MaxTables == 4      \* tables on the heap, the two package-level ones included
MaxDigests == 2     \* digest objects alive at once (SpecShared)
MaxChunk == 2       \* bytes in one Write / Update / Checksum / Sum argument
MaxWritten == 3     \* bytes a digest accumulates between resets (Spec)
MaxSharedWritten == 2   \* the same, per digest, in SpecShared

----------------------------------------------------------------------------
(* Program constants. *)

ANSI == 32773       \* 0x8005
CCITT == 4129       \* 0x1021

\* Byte values the inputs are drawn from.
Bytes == {0, 255}

\* Polynomials MakeTable is called with: the two named ones and others
\* (0xA001, the bit-reversed ANSI polynomial, and 0).
Polys == {ANSI, CCITT, 40961, 0}

\* The polynomials the client of Spec builds tables from.
DigestPolys == {ANSI, CCITT, 40961}

\* Starting crc values Update is called with directly.
Crcs == {0, 65535, 4660}

\* The standard check input "123456789".
Check == <<49, 50, 51, 52, 53, 54, 55, 56, 57>>

SeqsUpTo(S, n) == UNION {[1..k -> S] : k \in 0..n}

Chunks == SeqsUpTo(Bytes, MaxChunk)

Inputs == Chunks \cup {Check}

----------------------------------------------------------------------------
(* uint16 and byte arithmetic. *)

RECURSIVE Xor(_, _)
Xor(a, b) ==
    IF a = 0 THEN b
    ELSE IF b = 0 THEN a
    ELSE ((a + b) % 2) + 2 * Xor(a \div 2, b \div 2)

\* ^crc on a uint16
Not16(c) == 65535 - c

\* byte(x): the conversion keeps the low 8 bits
Byte(x) == x % 256

----------------------------------------------------------------------------
(* makeTable *)

\* a slip: the polynomial is folded in before the shift
TableStep_XorBeforeShift(crc, poly) ==
    IF crc % 2 = 1 THEN Xor(crc, poly) \div 2 ELSE crc \div 2

\* the body of the inner loop: one shift-and-conditional-XOR step
TableStep(crc, poly) ==
    IF crc % 2 = 1 THEN Xor(crc \div 2, poly) ELSE crc \div 2

\* for j := 0; j < 8; j++ { ... }
RECURSIVE TableLoop(_, _, _)
TableLoop(crc, poly, j) ==
    IF j < 8 THEN TableLoop(TableStep(crc, poly), poly, j + 1) ELSE crc

\* a slip: the inner loop runs 7 times
makeTable_SevenSteps(poly) == [i \in 0..255 |-> TableLoop(i, poly, 1)]

makeTable(poly) == [i \in 0..255 |-> TableLoop(i, poly, 0)]

\* makeTable is pure: its results for the polynomials in use, built once
Built == [p \in Polys |-> makeTable(p)]

\* The package-level variables ANSITable and CCITTTable, as heap pointers.
ANSITable == 1
CCITTTable == 2

\* MakeTable: the pointer returned and the heap after the call.
MakeTable(poly) ==
    IF poly = ANSI THEN [tab |-> ANSITable, tables |-> tables, polys |-> polys]
    ELSE IF poly = CCITT THEN [tab |-> CCITTTable, tables |-> tables, polys |-> polys]
    ELSE [tab |-> Len(tables) + 1,
          tables |-> Append(tables, Built[poly]),
          polys |-> Append(polys, poly)]

----------------------------------------------------------------------------
(* Update and the one-shot helpers *)

\* for _, v := range p { crc = tab[byte(crc)^v] ^ (crc >> 8) }
RECURSIVE UpdateLoop(_, _, _)
UpdateLoop(crc, tab, p) ==
    IF p = <<>> THEN crc
    ELSE UpdateLoop(Xor(tab[Xor(Byte(crc), Head(p))], crc \div 256), tab, Tail(p))

\* a slip: the result is not complemented back
Update_NoFinalComplement(crc, tab, p) == UpdateLoop(Not16(crc), tab, p)

Update(crc, tab, p) == Not16(UpdateLoop(Not16(crc), tab, p))

\* a slip: the running value starts at all ones
Checksum_StartOnes(data, tab) == Update(65535, tab, data)

Checksum(data, tab) == Update(0, tab, data)

ChecksumANSI(data) == Update(0, tables[ANSITable], data)

ChecksumCCITT(data) == Update(0, tables[CCITTTable], data)

----------------------------------------------------------------------------
(* The digest *)

New(tab) == [crc |-> 0, tab |-> tab]

NewANSI == New(ANSITable)

NewCCITT == New(CCITTTable)

\* a slip: Reset leaves the running value alone
Reset_Keeps(d) == d

Reset(d) == [d EXCEPT !.crc = 0]

\* a slip: the digest's own table is ignored for the package-level ANSI one
Write_ANSITableOnly(d, p) ==
    [d |-> [d EXCEPT !.crc = Update(d.crc, tables[ANSITable], p)],
     n |-> Len(p),
     err |-> "nil"]

\* a slip: the count returned is one short
Write_ShortCount(d, p) ==
    [d |-> [d EXCEPT !.crc = Update(d.crc, tables[d.tab], p)],
     n |-> IF p = <<>> THEN 0 ELSE Len(p) - 1,
     err |-> "nil"]

\* Write: the digest after the call, and the (n, err) it returns
Write(d, p) ==
    [d |-> [d EXCEPT !.crc = Update(d.crc, tables[d.tab], p)],
     n |-> Len(p),
     err |-> "nil"]

Sum16(d) == d.crc

\* a slip: the two bytes are appended low byte first
Sum_LittleEndian(d, in) ==
    LET s == d.crc IN in \o <<Byte(s), Byte(s \div 256)>>

\* append(in, byte(s>>8), byte(s))
Sum(d, in) ==
    LET s == Sum16(d) IN in \o <<Byte(s \div 256), Byte(s)>>

----------------------------------------------------------------------------
(* The state machines: clients calling the package.                         *)
(*   Spec        one client holding one digest handle (digests[1])          *)
(*   SpecPure    calls of the package-level functions                       *)
(*   SpecShared  several digests alive at once, their calls interleaved     *)

\* pre: the part of the state before the call that the claims compare with
NoRet == [op |-> "none", tab |-> 0, poly |-> 0, crc |-> 0, p |-> <<>>,
          n |-> 0, err |-> "nil", val |-> 0, out |-> <<>>, pre |-> 0]

\* Package initialisation: ANSITable and CCITTTable are built, nothing else exists.
Init ==
    /\ tables = <<makeTable(ANSI), makeTable(CCITT)>>
    /\ polys = <<ANSI, CCITT>>
    /\ digests = <<>>
    /\ written = <<>>
    /\ ret = NoRet

CallMakeTable(poly) ==
    /\ poly \in {ANSI, CCITT} \/ Len(tables) < MaxTables
    /\ LET r == MakeTable(poly) IN
        /\ tables' = r.tables
        /\ polys' = r.polys
        /\ ret' = [NoRet EXCEPT !.op = "MakeTable", !.poly = poly, !.tab = r.tab,
                                !.pre = Len(tables)]
    /\ UNCHANGED <<digests, written>>

(* ---- Spec: the handle h := New(tab), then h.Reset / h.Write / h.Sum16 / h.Sum *)

CallNew(t) ==
    /\ digests' = <<New(t)>>
    /\ written' = << <<>> >>
    /\ ret' = [NoRet EXCEPT !.op = "New", !.tab = t]
    /\ UNCHANGED <<tables, polys>>

CallNewANSI ==
    /\ digests' = <<NewANSI>>
    /\ written' = << <<>> >>
    /\ ret' = [NoRet EXCEPT !.op = "NewANSI"]
    /\ UNCHANGED <<tables, polys>>

CallNewCCITT ==
    /\ digests' = <<NewCCITT>>
    /\ written' = << <<>> >>
    /\ ret' = [NoRet EXCEPT !.op = "NewCCITT"]
    /\ UNCHANGED <<tables, polys>>

CallReset(i) ==
    /\ i \in DOMAIN digests
    /\ digests' = [digests EXCEPT ![i] = Reset(digests[i])]
    /\ written' = [written EXCEPT ![i] = <<>>]
    /\ ret' = [NoRet EXCEPT !.op = "Reset", !.crc = digests[i].crc,
                            !.pre = digests[i].tab]
    /\ UNCHANGED <<tables, polys>>

CallWrite(i, p) ==
    /\ i \in DOMAIN digests
    /\ Len(written[i]) + Len(p) <= MaxWritten
    /\ LET r == Write(digests[i], p) IN
        /\ digests' = [digests EXCEPT ![i] = r.d]
        /\ ret' = [NoRet EXCEPT !.op = "Write", !.p = p, !.n = r.n, !.err = r.err]
    /\ written' = [written EXCEPT ![i] = @ \o p]
    /\ UNCHANGED <<tables, polys>>

CallSum16(i) ==
    /\ i \in DOMAIN digests
    /\ ret' = [NoRet EXCEPT !.op = "Sum16", !.val = Sum16(digests[i]),
                            !.pre = digests[i].crc]
    /\ UNCHANGED <<tables, polys, digests, written>>

CallSum(i, in) ==
    /\ i \in DOMAIN digests
    /\ ret' = [NoRet EXCEPT !.op = "Sum", !.p = in, !.out = Sum(digests[i], in),
                            !.pre = digests[i].crc]
    /\ UNCHANGED <<tables, polys, digests, written>>

Next ==
    \/ \E poly \in DigestPolys : CallMakeTable(poly)
    \/ \E t \in DOMAIN tables : CallNew(t)
    \/ CallNewANSI
    \/ CallNewCCITT
    \/ CallReset(1)
    \/ \E p \in Chunks : CallWrite(1, p)
    \/ CallSum16(1)
    \/ \E in \in Chunks : CallSum(1, in)

Spec == Init /\ [][Next]_vars

(* ---- SpecPure: MakeTable, Update, Checksum, ChecksumANSI, ChecksumCCITT *)

CallUpdate(crc, t, p) ==
    /\ ret' = [NoRet EXCEPT !.op = "Update", !.crc = crc, !.tab = t, !.p = p,
                            !.val = Update(crc, tables[t], p)]
    /\ UNCHANGED <<tables, polys, digests, written>>

CallChecksum(data, t) ==
    /\ ret' = [NoRet EXCEPT !.op = "Checksum", !.tab = t, !.p = data,
                            !.val = Checksum(data, tables[t])]
    /\ UNCHANGED <<tables, polys, digests, written>>

CallChecksumANSI(data) ==
    /\ ret' = [NoRet EXCEPT !.op = "ChecksumANSI", !.p = data,
                            !.val = ChecksumANSI(data)]
    /\ UNCHANGED <<tables, polys, digests, written>>

CallChecksumCCITT(data) ==
    /\ ret' = [NoRet EXCEPT !.op = "ChecksumCCITT", !.p = data,
                            !.val = ChecksumCCITT(data)]
    /\ UNCHANGED <<tables, polys, digests, written>>

NextPure ==
    \/ \E poly \in Polys : CallMakeTable(poly)
    \/ \E crc \in Crcs, t \in DOMAIN tables, p \in Chunks : CallUpdate(crc, t, p)
    \/ \E data \in Inputs, t \in DOMAIN tables : CallChecksum(data, t)
    \/ \E data \in Inputs : CallChecksumANSI(data)
    \/ \E data \in Inputs : CallChecksumCCITT(data)

SpecPure == Init /\ [][NextPure]_vars

(* ---- SpecShared: digests created over the shared tables, calls interleaved *)

ShareNew(t) ==
    /\ Len(digests) < MaxDigests
    /\ digests' = Append(digests, New(t))
    /\ written' = Append(written, <<>>)
    /\ UNCHANGED <<tables, polys, ret>>

ShareReset(i) ==
    /\ digests' = [digests EXCEPT ![i] = Reset(digests[i])]
    /\ written' = [written EXCEPT ![i] = <<>>]
    /\ UNCHANGED <<tables, polys, ret>>

ShareWrite(i, p) ==
    /\ Len(written[i]) + Len(p) <= MaxSharedWritten
    /\ digests' = [digests EXCEPT ![i] = Write(digests[i], p).d]
    /\ written' = [written EXCEPT ![i] = @ \o p]
    /\ UNCHANGED <<tables, polys, ret>>

NextShared ==
    \/ \E t \in DOMAIN tables : ShareNew(t)
    \/ \E i \in DOMAIN digests : ShareReset(i)
    \/ \E i \in DOMAIN digests, p \in Chunks : ShareWrite(i, p)

SpecShared == Init /\ [][NextShared]_vars

----------------------------------------------------------------------------
(* The claims' reference definitions: the bit-at-a-time CRC. *)

\* one shift-and-conditional-XOR step, on the full 16-bit value
BitStep(c, p) == Xor(c \div 2, (c % 2) * p)

Bit8(c, p) ==
    BitStep(BitStep(BitStep(BitStep(BitStep(BitStep(BitStep(BitStep(c, p), p), p), p), p), p), p), p)

\* b is XOR-ed into the low byte of c, then 8 steps
BitByte(c, b, p) == Bit8(Xor(c, b), p)

RECURSIVE BitLoop(_, _, _)
BitLoop(c, p, data) ==
    IF data = <<>> THEN c ELSE BitLoop(BitByte(c, Head(data), p), p, Tail(data))

\* initial complement, the bytes bit by bit, final complement
BitUpdate(crc, p, data) == 65535 - BitLoop(65535 - crc, p, data)

Named == {ANSI, CCITT}

----------------------------------------------------------------------------
(* C1: ChecksumANSI of "123456789" returns 0xBB3D. *)
C1_ChecksumANSICheck ==
    (ret.op = "ChecksumANSI" /\ ret.p = Check) => ret.val = 47933

(* C2: ChecksumCCITT of "123456789" returns 0x31C3. *)
C2_ChecksumCCITTCheck ==
    (ret.op = "ChecksumCCITT" /\ ret.p = Check) => ret.val = 12739

(* C3: incremental equivalence. Whatever Writes (of any chunks, empty ones  *)
(* included, with Sum16 and Sum calls between them) the digest has seen,    *)
(* Sum16() is the Checksum of their concatenation; and from every value c   *)
(* that Sum16() returns, Update(Update(c, t, a), t, b) = Update(c, t, a++b). *)
C3_IncrementalEquivalence ==
    digests # <<>> =>
        LET h == digests[1]
            t == tables[h.tab]
        IN  /\ Sum16(h) = Checksum(written[1], t)
            /\ ret.op = "Sum16" =>
                  /\ ret.val = Checksum(written[1], t)
                  /\ \A a \in Chunks, b \in Chunks :
                        Update(Update(ret.val, t, a), t, b) = Update(ret.val, t, a \o b)

\* the digest holds bytes that arrived in at least two non-empty Writes
C3_Witness ==
    /\ digests # <<>>
    /\ ret.op = "Write"
    /\ ret.p # <<>>
    /\ Len(written[1]) > Len(ret.p)
    /\ digests[1].crc # 0

(* C4: the Checksum of the empty input is 0 for every table (the cached     *)
(* ones and any other on the heap), and a digest just created reports       *)
(* Sum16() = 0.                                                             *)
C4_EmptyInput ==
    /\ \A t \in DOMAIN tables : Checksum(<<>>, tables[t]) = 0
    /\ ChecksumANSI(<<>>) = 0
    /\ ChecksumCCITT(<<>>) = 0
    /\ ret.op \in {"New", "NewANSI", "NewCCITT"} => Sum16(digests[1]) = 0

\* a digest was just created over a table that is not one of the cached two
C4_Witness ==
    /\ ret.op = "New"
    /\ ret.tab > CCITTTable
    /\ polys[ret.tab] \notin Named

(* C5: Reset. Right after Reset() the digest reports Sum16() = 0, refers to *)
(* the table it referred to before, and is the digest New returns for that  *)
(* table, so a Write takes both to the same state; and at any time Sum16()  *)
(* is what a fresh digest over the same table reports after the bytes       *)
(* written since the last Reset.                                            *)
C5_Reset ==
    /\ ret.op = "Reset" =>
          /\ Sum16(digests[1]) = 0
          /\ digests[1].tab = ret.pre
          /\ digests[1] = New(ret.pre)
          /\ \A p \in Chunks : Write(digests[1], p).d = Write(New(ret.pre), p).d
    /\ digests # <<>> =>
          Sum16(digests[1]) = Sum16(Write(New(digests[1].tab), written[1]).d)

\* a Reset of a digest that had accumulated a non-zero value
C5_Witness ==
    /\ ret.op = "Reset"
    /\ ret.crc # 0

(* C6: Sum(prefix) returns prefix followed by exactly two bytes, the high   *)
(* byte then the low byte of Sum16(); its length is len(prefix) + 2 and the *)
(* digest's crc is what it was before the call.                             *)
C6_Sum ==
    ret.op = "Sum" =>
        LET n == Len(ret.p)
            s == Sum16(digests[1])
        IN  /\ Len(ret.out) = n + 2
            /\ SubSeq(ret.out, 1, n) = ret.p
            /\ ret.out[n + 1] \in 0..255
            /\ ret.out[n + 2] \in 0..255
            /\ ret.out[n + 1] * 256 + ret.out[n + 2] = s
            /\ digests[1].crc = ret.pre

\* Sum with a non-empty prefix on a digest whose two checksum bytes differ
C6_Witness ==
    /\ ret.op = "Sum"
    /\ ret.p # <<>>
    /\ written[1] # <<>>
    /\ ret.out[Len(ret.p) + 1] # ret.out[Len(ret.p) + 2]

(* C7: Write returns (len(p), nil) for every p, the empty one included, and *)
(* no state of a digest rejects a Write, Reset, Sum16 or Sum.               *)
C7_WriteNeverFails ==
    /\ ret.op = "Write" => ret.n = Len(ret.p) /\ ret.err = "nil"
    /\ digests # <<>> =>
          /\ ENABLED CallWrite(1, <<>>)
          /\ Len(written[1]) < MaxWritten =>
                \A b \in Bytes : ENABLED CallWrite(1, <<b>>)
          /\ ENABLED CallReset(1)
          /\ ENABLED CallSum16(1)
          /\ \A in \in Chunks : ENABLED CallSum(1, in)

\* a Write of a full chunk, and a Write of the empty chunk, have returned
C7_Witness ==
    /\ ret.op = "Write"
    /\ Len(ret.p) = MaxChunk
    /\ written[1] # ret.p

(* C8: MakeTable(p) returns a table whose entry i is 8 shift-and-           *)
(* conditional-XOR steps from i; for ANSI and CCITT it is the cached table  *)
(* and nothing is built; for another p a new table is built; and tables     *)
(* built from the same p are identical.                                     *)
C8_MakeTable ==
    /\ ret.op = "MakeTable" =>
          /\ DOMAIN tables[ret.tab] = 0..255
          /\ \A i \in 0..255 : tables[ret.tab][i] = Bit8(i, ret.poly)
          /\ ret.poly = ANSI => ret.tab = ANSITable /\ Len(tables) = ret.pre
          /\ ret.poly = CCITT => ret.tab = CCITTTable /\ Len(tables) = ret.pre
          /\ ret.poly \notin Named =>
                ret.tab = Len(tables) /\ Len(tables) = ret.pre + 1
    /\ \A i \in DOMAIN tables, j \in DOMAIN tables :
          polys[i] = polys[j] => tables[i] = tables[j]

\* a second table was built from a polynomial that already has one
C8_Witness ==
    /\ ret.op = "MakeTable"
    /\ ret.poly \notin Named
    /\ ret.poly # 0
    /\ \E i \in DOMAIN tables : i # ret.tab /\ polys[i] = ret.poly

(* C9: tables are read-only. Every table on the heap holds what makeTable   *)
(* built for its polynomial, and with several digests alive and their       *)
(* calls interleaved, each digest's Sum16() is the Checksum, over its own   *)
(* table, of the bytes written to that digest since New or its last Reset.  *)
C9_SharedTables ==
    /\ \A t \in DOMAIN tables : tables[t] = Built[polys[t]]
    /\ \A i \in DOMAIN digests :
          /\ digests[i].tab \in DOMAIN tables
          /\ Sum16(digests[i]) = Checksum(written[i], Built[polys[digests[i].tab]])

\* two digests over one table hold different non-empty inputs
C9_Witness ==
    /\ Len(digests) >= 2
    /\ digests[1].tab = digests[2].tab
    /\ written[1] # <<>>
    /\ written[2] # <<>>
    /\ written[1] # written[2]
    /\ digests[1].crc # digests[2].crc

(* C10: the table step equals the bitwise reference: for the table of       *)
(* polynomial p, a 16-bit state c and a byte b,                             *)
(* table[low_byte(c) XOR b] XOR (c >> 8) is c with b XOR-ed into its low    *)
(* byte and then 8 shift-and-conditional-XOR steps; and Update returns what *)
(* the bit-at-a-time CRC with initial and final complement returns.         *)
C10_TableStepIsBitwise ==
    ret.op = "Update" =>
        LET p == polys[ret.tab]
            t == tables[ret.tab]
            c == ret.val
        IN  /\ ret.val = BitUpdate(ret.crc, p, ret.p)
            /\ \A b \in Bytes \cup {1, 49, 128} :
                  Xor(t[Xor(Byte(c), b)], c \div 256) = BitByte(c, b, p)

\* Update ran over a full chunk from a non-zero start, on a built table
C10_Witness ==
    /\ ret.op = "Update"
    /\ ret.crc \notin {0, 65535}
    /\ Len(ret.p) = MaxChunk
    /\ polys[ret.tab] \notin Named
    /\ polys[ret.tab] # 0

====
